---- MODULE Spec2Model ----
(***************************************************************************)
(* cloud_monitoring_metrics_fetch: main.go.                                *)
(*                                                                         *)
(* The program opens a metric client, pages through the time series the    *)
(* monitoring backend returns, flattens every series into a list of Point  *)
(* structs, marshals the list to JSON and prints one line per series.      *)
(*                                                                         *)
(* Conventions of the model:                                               *)
(*   - a Go pointer is Nil or Ptr(x);                                      *)
(*   - a Go slice is NilSlice or Slice(seq) (an allocated slice may be     *)
(*     empty, and encoding/json tells the two apart);                      *)
(*   - a float64 is NaN or F(t), t the value in tenths (15 is 1.5);        *)
(*   - a JSON document is a tree: Tok(text) for null, booleans, numbers    *)
(*     and strings (text as it is written on the line), Arr(seq) for an    *)
(*     array and Obj(members) for an object, members being the sequence    *)
(*     of Member(key, value) in the order they are written.                *)
(***************************************************************************)
EXTENDS Integers, Sequences, FiniteSets, TLC

\* Bound on the size of the backend's answer in one run: every series
\* counts 1, every label 1 and every point 1 (a distribution 2).
MaxLoad == 4

----------------------------------------------------------------------------
\* Go values

Nil == [nil |-> TRUE]
Ptr(x) == [nil |-> FALSE, v |-> x]

NilSlice == [isNil |-> TRUE, elems |-> <<>>]
Slice(s) == [isNil |-> FALSE, elems |-> s]

NaN == [nan |-> TRUE, tenths |-> 0]
F(t) == [nan |-> FALSE, tenths |-> t]

\* A repeated protobuf field read from the wire: no element leaves the
\* Go slice nil.
Repeated(s) == IF s = <<>> THEN NilSlice ELSE Slice(s)

----------------------------------------------------------------------------
\* The backend's data (monitoringpb.TimeSeries and what it holds)

LabelKeys == {"zone", "instance"}
LabelValues == {"a", "b"}
\* map[string]string
LabelMaps == UNION {[D -> LabelValues] : D \in SUBSET LabelKeys}

\* distribution.Distribution_Range
SrcRange == Ptr([Min |-> F(0), Max |-> F(25)])

\* distribution.Distribution_BucketOptions, its oneof Options unset or set
\* to one of the three layouts
SrcNoLayout == Ptr([Options |-> [layout |-> "none"]])
SrcLinear ==
    Ptr([Options |->
           [layout |-> "LinearBuckets",
            LinearBuckets |-> [NumFiniteBuckets |-> 2, Width |-> F(10), Offset |-> F(0)]]])
SrcExponential ==
    Ptr([Options |->
           [layout |-> "ExponentialBuckets",
            ExponentialBuckets |->
                [NumFiniteBuckets |-> 2, GrowthFactor |-> F(20), Scale |-> F(5)]]])
SrcExplicit ==
    Ptr([Options |->
           [layout |-> "ExplicitBuckets",
            ExplicitBuckets |-> [Bounds |-> Repeated(<<F(0), F(10)>>)]]])

\* distribution.Distribution: every layout, no bucket options at all, and
\* the range present or not
SrcDistributions ==
    { [Count |-> 3, Mean |-> F(15), SumOfSquaredDeviation |-> F(5),
       Range |-> x[1], BucketOptions |-> x[2], BucketCounts |-> Repeated(<<1, 2, 0>>)]
      : x \in { <<Nil, Nil>>, <<SrcRange, Nil>>, <<Nil, SrcNoLayout>>,
                <<SrcRange, SrcLinear>>, <<Nil, SrcExponential>>,
                <<SrcRange, SrcExplicit>> } }

\* monitoringpb.TypedValue: its oneof Value unset or set to one of five kinds
SrcTypedValues ==
    {[kind |-> "none"]}
    \cup {[kind |-> "BoolValue", BoolValue |-> b] : b \in BOOLEAN}
    \cup {[kind |-> "Int64Value", Int64Value |-> i] : i \in {0, 42}}
    \cup {[kind |-> "DoubleValue", DoubleValue |-> d] : d \in {F(15), NaN}}
    \cup {[kind |-> "StringValue", StringValue |-> s] : s \in {"ok"}}
    \cup {[kind |-> "DistributionValue", DistributionValue |-> dv] : dv \in SrcDistributions}

\* monitoringpb.Point: the interval is always set by the backend, the value
\* may be missing
SrcPoints ==
    { [Interval |-> [StartTime |-> 60, EndTime |-> 120], Value |-> v]
      : v \in {Nil} \cup {Ptr(tv) : tv \in SrcTypedValues} }

\* p.GetValue().GetValue(): the oneof of the point, nil-safe
GetValue(p) == IF p.Value.nil THEN [kind |-> "none"] ELSE p.Value.v

Kinds == {"BoolValue", "Int64Value", "DoubleValue", "StringValue", "DistributionValue"}

----------------------------------------------------------------------------
\* The flattener

\* All the orders `for k, v := range labels` may visit the entries of a map in
Orderings(S) ==
    {o \in [1..Cardinality(S) -> S] : \A i, j \in 1..Cardinality(S) : o[i] = o[j] => i = j}

\* convertKeyValuePairs: the set of lists it may return, one per visiting
\* order of the map
convertKeyValuePairs(labels, type) ==
    { [i \in 1..Len(o) |-> [Type |-> type, Key |-> o[i], Value |-> labels[o[i]]]]
      : o \in Orderings(DOMAIN labels) }

\* MergedLabels with the two appends swapped
MergedLabelsMetricFirst(series) ==
    { Slice(ml \o rl) : rl \in convertKeyValuePairs(series.Resource, "resource"),
                        ml \in convertKeyValuePairs(series.Metric, "metric") }

\* labels := make([]KeyValue, 0), then the resource labels, then the metric
\* labels: the lists one series may get
MergedLabels(series) ==
    { Slice(rl \o ml) : rl \in convertKeyValuePairs(series.Resource, "resource"),
                        ml \in convertKeyValuePairs(series.Metric, "metric") }

\* NewPoint for a Point whose BoolValue is a bool, not a *bool
NewPointPlainBool(p, labels) ==
    [Timestamp |-> p.Interval.StartTime, Labels |-> labels,
     BoolValue |-> Ptr(FALSE), Int64Value |-> Nil, DoubleValue |-> Nil,
     StringValue |-> Nil, DistributionValue |-> Nil]

\* point := Point{Timestamp: ..., Labels: labels}
NewPoint(p, labels) ==
    [Timestamp |-> p.Interval.StartTime, Labels |-> labels,
     BoolValue |-> Nil, Int64Value |-> Nil, DoubleValue |-> Nil,
     StringValue |-> Nil, DistributionValue |-> Nil]

\* var ou OptionsUnion and the switch over the layout of the source
ConvertOptions(o) ==
    [LinearBuckets |->
        IF o.layout = "LinearBuckets"
        THEN Ptr([NumFiniteBuckets |-> o.LinearBuckets.NumFiniteBuckets,
                  Width |-> o.LinearBuckets.Width,
                  Offset |-> o.LinearBuckets.Offset])
        ELSE Nil,
     ExponentialBuckets |->
        IF o.layout = "ExponentialBuckets"
        THEN Ptr([NumFiniteBuckets |-> o.ExponentialBuckets.NumFiniteBuckets,
                  GrowthFactor |-> o.ExponentialBuckets.GrowthFactor,
                  Scale |-> o.ExponentialBuckets.Scale])
        ELSE Nil,
     ExplicitBuckets |->
        IF o.layout = "ExplicitBuckets"
        THEN Ptr([Bounds |-> o.ExplicitBuckets.Bounds])
        ELSE Nil]

\* if r := dv.GetRange(); r != nil { ... }
ConvertRange(r) ==
    IF r.nil THEN Nil ELSE Ptr([Min |-> r.v.Min, Max |-> r.v.Max])

\* ConvertBucketOptions that leaves BucketOptions nil when no layout is set
ConvertBucketOptionsLayoutOnly(bo) ==
    IF bo.nil \/ bo.v.Options.layout = "none"
    THEN Nil
    ELSE Ptr([Options |-> Ptr(ConvertOptions(bo.v.Options))])

\* if bo := dv.GetBucketOptions(); bo != nil { ... }
ConvertBucketOptions(bo) ==
    IF bo.nil THEN Nil ELSE Ptr([Options |-> Ptr(ConvertOptions(bo.v.Options))])

\* case *monitoringpb.TypedValue_DistributionValue
ConvertDistribution(dv) ==
    [Count |-> dv.Count, Mean |-> dv.Mean,
     SumOfSquaredDeviation |-> dv.SumOfSquaredDeviation,
     Range |-> ConvertRange(dv.Range),
     BucketOptions |-> ConvertBucketOptions(dv.BucketOptions),
     BucketCounts |-> dv.BucketCounts]

\* ConvertPoint with a default case that does not return
ConvertPointNoDefault(p, labels) ==
    LET v == GetValue(p)
        point == [Timestamp |-> p.Interval.StartTime, Labels |-> labels,
                  BoolValue |-> Nil, Int64Value |-> Nil, DoubleValue |-> Nil,
                  StringValue |-> Nil, DistributionValue |-> Nil]
    IN  CASE v.kind = "BoolValue" ->
               [err |-> "", point |-> [point EXCEPT !.BoolValue = Ptr(v.BoolValue)]]
          [] v.kind = "Int64Value" ->
               [err |-> "", point |-> [point EXCEPT !.Int64Value = Ptr(v.Int64Value)]]
          [] v.kind = "DoubleValue" ->
               [err |-> "", point |-> [point EXCEPT !.DoubleValue = Ptr(v.DoubleValue)]]
          [] v.kind = "StringValue" ->
               [err |-> "", point |-> [point EXCEPT !.StringValue = Ptr(v.StringValue)]]
          [] OTHER ->
               [err |-> "", point |-> point]

\* The switch over the value of one point: the point with its value field
\* set, or the error of the default case
ConvertPoint(p, labels) ==
    LET v == GetValue(p)
        point == NewPoint(p, labels)
    IN  CASE v.kind = "BoolValue" ->
               [err |-> "", point |-> [point EXCEPT !.BoolValue = Ptr(v.BoolValue)]]
          [] v.kind = "Int64Value" ->
               [err |-> "", point |-> [point EXCEPT !.Int64Value = Ptr(v.Int64Value)]]
          [] v.kind = "DoubleValue" ->
               [err |-> "", point |-> [point EXCEPT !.DoubleValue = Ptr(v.DoubleValue)]]
          [] v.kind = "StringValue" ->
               [err |-> "", point |-> [point EXCEPT !.StringValue = Ptr(v.StringValue)]]
          [] v.kind = "DistributionValue" ->
               [err |-> "",
                point |-> [point EXCEPT !.DistributionValue =
                                          Ptr(ConvertDistribution(v.DistributionValue))]]
          [] OTHER ->
               [err |-> "Not supported metric type", point |-> point]

\* points = append(points, point)
AppendPoint(points, point) == Append(points, point)

\* for _, p := range resp.GetPoints(): the points appended so far are acc
RECURSIVE FlattenFrom(_, _, _)
FlattenFrom(ps, labels, acc) ==
    IF ps = <<>>
    THEN [err |-> "", points |-> Slice(acc)]
    ELSE LET c == ConvertPoint(Head(ps), labels)
         IN  IF c.err # ""
             THEN [err |-> c.err, points |-> Slice(acc)]
             ELSE FlattenFrom(Tail(ps), labels, AppendPoint(acc, c.point))

\* FlattenPoints with `var points []Point`: nil until the first append
FlattenPointsNilSlice(ps, labels) ==
    IF ps = <<>> THEN [err |-> "", points |-> NilSlice] ELSE FlattenFrom(ps, labels, <<>>)

\* points := make([]Point, 0) and the loop over the points of the series
FlattenPoints(ps, labels) == FlattenFrom(ps, labels, <<>>)

----------------------------------------------------------------------------
\* encoding/json, as json.Marshal(&points) uses it

Tok(text) == [tok |-> text]
Arr(docs) == [arr |-> docs]
Member(k, d) == [key |-> k, val |-> d]
Obj(members) == [obj |-> members]

Null == Tok("null")
MarshalBool(b) == Tok(IF b THEN "true" ELSE "false")
MarshalInt(i) == Tok(ToString(i))
\* No string of the model needs escaping.
MarshalString(str) == Tok("\"" \o str \o "\"")

\* A float64 the encoder accepts (not NaN), in the shortest decimal form:
\* 1.5 is written 1.5, and 2.0 is written 2.
MarshalFloat(f) ==
    Tok(IF f.tenths % 10 = 0
        THEN ToString(f.tenths \div 10)
        ELSE ToString(f.tenths \div 10) \o "." \o ToString(f.tenths % 10))

TwoDigits(n) == IF n < 10 THEN "0" \o ToString(n) ELSE ToString(n)

\* time.Time of a timestamp of less than one hour after the epoch, in UTC
\* (RFC 3339)
MarshalTime(sec) ==
    Tok("\"1970-01-01T00:" \o TwoDigits(sec \div 60) \o ":" \o TwoDigits(sec % 60) \o "Z\"")

\* A pointer field without omitempty: null when nil, else what it points to
\* (doc is the encoding of what p points to)
MarshalPtr(p, doc) == IF p.nil THEN Null ELSE doc

\* A slice: null when nil, else an array, empty or not
\* (docs are the encodings of its elements)
MarshalSlice(sl, docs) == IF sl.isNil THEN Null ELSE Arr(docs)

MarshalKeyValue(kv) ==
    Obj(<< Member("type", MarshalString(kv.Type)),
           Member("key", MarshalString(kv.Key)),
           Member("value", MarshalString(kv.Value)) >>)

MarshalRange(r) ==
    Obj(<< Member("min", MarshalFloat(r.Min)), Member("max", MarshalFloat(r.Max)) >>)

MarshalLinearBuckets(b) ==
    Obj(<< Member("num_finite_buckets", MarshalInt(b.NumFiniteBuckets)),
           Member("width", MarshalFloat(b.Width)),
           Member("offset", MarshalFloat(b.Offset)) >>)

MarshalExponentialBuckets(b) ==
    Obj(<< Member("num_finite_buckets", MarshalInt(b.NumFiniteBuckets)),
           Member("growth_factor", MarshalFloat(b.GrowthFactor)),
           Member("scale", MarshalFloat(b.Scale)) >>)

MarshalExplicitBuckets(b) ==
    Obj(<< Member("bounds",
                  MarshalSlice(b.Bounds,
                               [i \in 1..Len(b.Bounds.elems) |->
                                   MarshalFloat(b.Bounds.elems[i])])) >>)

MarshalOptionsUnion(ou) ==
    Obj(<< Member("linear_buckets",
                  MarshalPtr(ou.LinearBuckets, MarshalLinearBuckets(ou.LinearBuckets.v))),
           Member("exponential_buckets",
                  MarshalPtr(ou.ExponentialBuckets,
                             MarshalExponentialBuckets(ou.ExponentialBuckets.v))),
           Member("explicit_buckets",
                  MarshalPtr(ou.ExplicitBuckets,
                             MarshalExplicitBuckets(ou.ExplicitBuckets.v))) >>)

MarshalBucketOptions(bo) ==
    Obj(<< Member("options", MarshalPtr(bo.Options, MarshalOptionsUnion(bo.Options.v))) >>)

MarshalDistributionValue(d) ==
    Obj(<< Member("count", MarshalInt(d.Count)),
           Member("mean", MarshalFloat(d.Mean)),
           Member("sum_of_squared_deviation", MarshalFloat(d.SumOfSquaredDeviation)),
           Member("range", MarshalPtr(d.Range, MarshalRange(d.Range.v))),
           Member("bucket_options",
                  MarshalPtr(d.BucketOptions, MarshalBucketOptions(d.BucketOptions.v))),
           Member("bucket_counts",
                  MarshalSlice(d.BucketCounts,
                               [i \in 1..Len(d.BucketCounts.elems) |->
                                   MarshalInt(d.BucketCounts.elems[i])])) >>)

\* PointMembers for value fields tagged omitempty
PointMembersOmitEmpty(pt) ==
    << Member("timestamp", MarshalTime(pt.Timestamp)),
       Member("labels",
              MarshalSlice(pt.Labels,
                           [i \in 1..Len(pt.Labels.elems) |->
                               MarshalKeyValue(pt.Labels.elems[i])])) >>
    \o (IF pt.BoolValue.nil THEN <<>>
        ELSE <<Member("bool_value", MarshalBool(pt.BoolValue.v))>>)
    \o (IF pt.Int64Value.nil THEN <<>>
        ELSE <<Member("int64_value", MarshalInt(pt.Int64Value.v))>>)
    \o (IF pt.DoubleValue.nil THEN <<>>
        ELSE <<Member("double_value", MarshalFloat(pt.DoubleValue.v))>>)
    \o (IF pt.StringValue.nil THEN <<>>
        ELSE <<Member("string_value", MarshalString(pt.StringValue.v))>>)
    \o (IF pt.DistributionValue.nil THEN <<>>
        ELSE <<Member("distribution_value",
                      MarshalDistributionValue(pt.DistributionValue.v))>>)

\* The members of a serialized Point, in the order of the struct's fields
PointMembers(pt) ==
    << Member("timestamp", MarshalTime(pt.Timestamp)),
       Member("labels",
              MarshalSlice(pt.Labels,
                           [i \in 1..Len(pt.Labels.elems) |->
                               MarshalKeyValue(pt.Labels.elems[i])])),
       Member("bool_value", MarshalPtr(pt.BoolValue, MarshalBool(pt.BoolValue.v))),
       Member("int64_value", MarshalPtr(pt.Int64Value, MarshalInt(pt.Int64Value.v))),
       Member("double_value", MarshalPtr(pt.DoubleValue, MarshalFloat(pt.DoubleValue.v))),
       Member("string_value", MarshalPtr(pt.StringValue, MarshalString(pt.StringValue.v))),
       Member("distribution_value",
              MarshalPtr(pt.DistributionValue,
                         MarshalDistributionValue(pt.DistributionValue.v))) >>

MarshalPoint(pt) == Obj(PointMembers(pt))

\* The float64 values the encoder meets in a distribution
FloatsOfDistribution(d) ==
    {d.Mean, d.SumOfSquaredDeviation}
    \cup (IF d.Range.nil THEN {} ELSE {d.Range.v.Min, d.Range.v.Max})
    \cup (IF d.BucketOptions.nil THEN {}
          ELSE LET ou == d.BucketOptions.v.Options.v
               IN  (IF ou.LinearBuckets.nil THEN {}
                    ELSE {ou.LinearBuckets.v.Width, ou.LinearBuckets.v.Offset})
                   \cup (IF ou.ExponentialBuckets.nil THEN {}
                         ELSE {ou.ExponentialBuckets.v.GrowthFactor,
                               ou.ExponentialBuckets.v.Scale})
                   \cup (IF ou.ExplicitBuckets.nil THEN {}
                         ELSE {ou.ExplicitBuckets.v.Bounds.elems[i]
                               : i \in 1..Len(ou.ExplicitBuckets.v.Bounds.elems)}))

\* The float64 values the encoder meets in a point
FloatsOfPoint(pt) ==
    (IF pt.DoubleValue.nil THEN {} ELSE {pt.DoubleValue.v})
    \cup (IF pt.DistributionValue.nil THEN {}
          ELSE FloatsOfDistribution(pt.DistributionValue.v))

\* json.Marshal(&points): the document, or the encoder's error on a float64
\* that JSON cannot write
Marshal(points) ==
    IF \E i \in 1..Len(points.elems) : \E f \in FloatsOfPoint(points.elems[i]) : f.nan
    THEN [err |-> "json: unsupported value: NaN", doc |-> Null]
    ELSE [err |-> "",
          doc |-> MarshalSlice(points,
                               [i \in 1..Len(points.elems) |->
                                   MarshalPoint(points.elems[i])])]

----------------------------------------------------------------------------
\* The run: main and readAndPrintTimeSeriesFields

VARIABLES
    pc,          \* where the run is: "start", "next" (about to call it.Next()),
                 \* "body" (a series in hand), "returned" (back in main), "exited"
    client,      \* the metric client: "none", "open" or "closed"
    newCalls,    \* calls of monitoring.NewMetricClient so far
    closeCalls,  \* calls of client.Close() so far
    it,          \* the iterator: "none", "active", "done" or "failed"
    nextCalls,   \* calls of it.Next() so far
    resp,        \* the series it.Next() returned last, Nil outside the loop body
    fetched,     \* the series the iterator has yielded, in order
    stdout,      \* the lines written to standard output, in order
    err,         \* the error readAndPrintTimeSeriesFields returned ("" for nil)
    stderr,      \* what log.Fatal wrote
    status       \* the process: "running", "exit 0" or "exit 1"

vars == <<pc, client, newCalls, closeCalls, it, nextCalls, resp, fetched, stdout,
          err, stderr, status>>

\* What a point counts in the size of the backend's answer: a distribution,
\* the one value with a structure of its own, counts 2
PointWeight(p) ==
    IF ~p.Value.nil /\ p.Value.v.kind = "DistributionValue" THEN 2 ELSE 1

RECURSIVE PointsWeight(_)
PointsWeight(ps) ==
    IF ps = <<>> THEN 0 ELSE PointWeight(Head(ps)) + PointsWeight(Tail(ps))

\* What a series counts in the size of the backend's answer
Weight(series) ==
    1 + Cardinality(DOMAIN series.Resource) + Cardinality(DOMAIN series.Metric)
      + PointsWeight(series.Points)

RECURSIVE Load(_)
Load(list) == IF list = <<>> THEN 0 ELSE Weight(Head(list)) + Load(Tail(list))

Init ==
    /\ pc = "start"
    /\ client = "none"
    /\ newCalls = 0
    /\ closeCalls = 0
    /\ it = "none"
    /\ nextCalls = 0
    /\ resp = Nil
    /\ fetched = <<>>
    /\ stdout = <<>>
    /\ err = ""
    /\ stderr = <<>>
    /\ status = "running"

\* Println with the new line put before the lines already written
PrintlnOnTop(out, doc) == <<doc>> \o out

\* fmt.Println(string(outputJson))
Println(out, doc) == Append(out, doc)

\* Return without the deferred client.Close()
ReturnNoClose(e) ==
    /\ UNCHANGED <<client, closeCalls>>
    /\ err' = e
    /\ resp' = Nil
    /\ pc' = "returned"

\* A return of readAndPrintTimeSeriesFields after `defer client.Close()`:
\* the deferred call runs, and main gets e
Return(e) ==
    /\ client' = "closed"
    /\ closeCalls' = closeCalls + 1
    /\ err' = e
    /\ resp' = Nil
    /\ pc' = "returned"

\* monitoring.NewMetricClient fails: the function returns before the defer
NewMetricClientFails ==
    /\ pc = "start"
    /\ newCalls' = newCalls + 1
    /\ err' = "NewMetricClient"
    /\ pc' = "returned"
    /\ UNCHANGED <<client, closeCalls, it, nextCalls, resp, fetched, stdout, stderr, status>>

\* monitoring.NewMetricClient succeeds; the request is built and
\* client.ListTimeSeries returns the iterator (nothing is fetched yet)
NewMetricClientOk ==
    /\ pc = "start"
    /\ newCalls' = newCalls + 1
    /\ client' = "open"
    /\ it' = "active"
    /\ pc' = "next"
    /\ UNCHANGED <<closeCalls, nextCalls, resp, fetched, stdout, err, stderr, status>>

\* it.Next() yields one more series
NextSeries ==
    /\ pc = "next"
    /\ \E r \in LabelMaps, m \in LabelMaps :
         LET used == Load(fetched) + 1 + Cardinality(DOMAIN r) + Cardinality(DOMAIN m)
         IN  /\ used <= MaxLoad
             /\ \E n \in 0..(MaxLoad - used) : \E ps \in [1..n -> SrcPoints] :
                  LET series == [Resource |-> r, Metric |-> m, Points |-> ps]
                  IN  /\ Load(fetched) + Weight(series) <= MaxLoad
                      /\ resp' = Ptr(series)
                      /\ fetched' = Append(fetched, series)
    /\ nextCalls' = nextCalls + 1
    /\ pc' = "body"
    /\ UNCHANGED <<client, newCalls, closeCalls, it, stdout, err, stderr, status>>

\* it.Next() returns iterator.Done: break, return nil
NextDone ==
    /\ pc = "next"
    /\ nextCalls' = nextCalls + 1
    /\ it' = "done"
    /\ Return("")
    /\ UNCHANGED <<newCalls, fetched, stdout, stderr, status>>

\* NextFails with the error skipped: the loop goes on
NextFailsSkipped ==
    /\ pc = "next"
    /\ nextCalls' = nextCalls + 1
    /\ it' = "failed"
    /\ UNCHANGED <<pc, client, newCalls, closeCalls, resp, fetched, stdout, err, stderr, status>>

\* it.Next() returns another error
NextFails ==
    /\ pc = "next"
    /\ nextCalls' = nextCalls + 1
    /\ it' = "failed"
    /\ Return("could not read time series value")
    /\ UNCHANGED <<newCalls, fetched, stdout, stderr, status>>

\* The loop body on a series with a point of no supported kind: the default
\* case returns
BodyUnsupported ==
    /\ pc = "body"
    /\ \E labels \in MergedLabels(resp.v) :
         LET fl == FlattenPoints(resp.v.Points, labels)
         IN  /\ fl.err # ""
             /\ Return(fl.err)
    /\ UNCHANGED <<newCalls, it, nextCalls, fetched, stdout, stderr, status>>

\* The loop body on a series json.Marshal refuses
BodyMarshalFails ==
    /\ pc = "body"
    /\ \E labels \in MergedLabels(resp.v) :
         LET fl == FlattenPoints(resp.v.Points, labels)
         IN  /\ fl.err = ""
             /\ Marshal(fl.points).err # ""
             /\ Return(Marshal(fl.points).err)
    /\ UNCHANGED <<newCalls, it, nextCalls, fetched, stdout, stderr, status>>

\* The loop body to its end: the series is flattened, marshalled and printed
BodyPrints ==
    /\ pc = "body"
    /\ \E labels \in MergedLabels(resp.v) :
         LET fl == FlattenPoints(resp.v.Points, labels)
         IN  /\ fl.err = ""
             /\ Marshal(fl.points).err = ""
             /\ stdout' = Println(stdout, Marshal(fl.points).doc)
    /\ resp' = Nil
    /\ pc' = "next"
    /\ UNCHANGED <<client, newCalls, closeCalls, it, nextCalls, fetched, err, stderr, status>>

\* MainExits with the error dropped
MainExitsIgnoringErr ==
    /\ pc = "returned"
    /\ pc' = "exited"
    /\ status' = "exit 0"
    /\ UNCHANGED <<client, newCalls, closeCalls, it, nextCalls, resp, fetched, stdout,
                   err, stderr>>

\* main after the call: log.Fatal(err) on an error, else the end of main
MainExits ==
    /\ pc = "returned"
    /\ pc' = "exited"
    /\ IF err # ""
       THEN stderr' = Append(stderr, err) /\ status' = "exit 1"
       ELSE stderr' = stderr /\ status' = "exit 0"
    /\ UNCHANGED <<client, newCalls, closeCalls, it, nextCalls, resp, fetched, stdout, err>>

Next ==
    \/ NewMetricClientFails
    \/ NewMetricClientOk
    \/ NextDone
    \/ NextFails
    \/ NextSeries
    \/ BodyUnsupported
    \/ BodyMarshalFails
    \/ BodyPrints
    \/ MainExits

Spec == Init /\ [][Next]_vars


----------------------------------------------------------------------------
\* Reading the input and the output, for the properties below

Last(list) == list[Len(list)]

\* The point has one of the five value kinds
Supported(p) == ~p.Value.nil /\ p.Value.v.kind \in Kinds

HasUnsupported(series) ==
    \E j \in 1..Len(series.Points) : ~Supported(series.Points[j])

\* The point holds a float64 JSON cannot write (the distributions of the
\* model hold finite numbers only)
NotANumber(p) ==
    /\ Supported(p)
    /\ p.Value.v.kind = "DoubleValue"
    /\ p.Value.v.DoubleValue.nan

HasNotANumber(series) ==
    \E j \in 1..Len(series.Points) : NotANumber(series.Points[j])

ValueKeys ==
    {"bool_value", "int64_value", "double_value", "string_value", "distribution_value"}

KeyOfKind(kind) ==
    CASE kind = "BoolValue" -> "bool_value"
      [] kind = "Int64Value" -> "int64_value"
      [] kind = "DoubleValue" -> "double_value"
      [] kind = "StringValue" -> "string_value"
      [] kind = "DistributionValue" -> "distribution_value"

\* The text of a scalar of the model as JSON writes it
Literal(v) ==
    CASE v.kind = "BoolValue" -> IF v.BoolValue THEN "true" ELSE "false"
      [] v.kind = "Int64Value" -> IF v.Int64Value = 0 THEN "0" ELSE "42"
      [] v.kind = "DoubleValue" -> "1.5"
      [] v.kind = "StringValue" -> "\"ok\""

\* The keys of a JSON object, and the value under one of them
KeysOf(o) == {o.obj[i].key : i \in 1..Len(o.obj)}
Field(o, k) == o.obj[CHOOSE i \in 1..Len(o.obj) : o.obj[i].key = k].val
IsNull(d) == "tok" \in DOMAIN d /\ d.tok = "null"
NonNullKeys(o, keys) == {k \in keys \cap KeysOf(o) : ~IsNull(Field(o, k))}

\* Line i is an array with one element per point of series i
LineOfSeries(i) ==
    /\ "arr" \in DOMAIN stdout[i]
    /\ Len(stdout[i].arr) = Len(fetched[i].Points)

\* The lines the code may print for a series (one per order of its labels)
LinesOf(series) ==
    {Marshal(FlattenPoints(series.Points, labels).points).doc : labels \in MergedLabels(series)}

\* The lines written so far are those of the first series fetched, in order
LinesInOrder ==
    /\ Len(stdout) <= Len(fetched)
    /\ \A i \in 1..Len(stdout) : stdout[i] \in LinesOf(fetched[i])

----------------------------------------------------------------------------
\* C1 as stated: when the iterator yields s1..sn without an error and every
\* point has a supported kind, the run ends with exactly n lines on standard
\* output, line i being the serialization of s_i.
C1_AsStated ==
    (/\ pc = "exited"
     /\ it # "failed"
     /\ \A i \in 1..Len(fetched) : ~HasUnsupported(fetched[i]))
    => (Len(stdout) = Len(fetched) /\ LinesInOrder)

\* C1 amended: when the iterator yields s1..sn without an error, every point
\* has a supported kind and no point holds a float64 that JSON cannot write,
\* the run ends with exactly n lines on standard output; and at any moment
\* line i is the serialization of s_i (nothing reordered, merged, skipped or
\* duplicated).
C1_LinesInFetchOrder ==
    /\ LinesInOrder
    /\ (/\ pc = "exited"
        /\ it # "failed"
        /\ \A i \in 1..Len(fetched) :
             ~HasUnsupported(fetched[i]) /\ ~HasNotANumber(fetched[i]))
       => Len(stdout) = Len(fetched)

\* Two different series were fetched and printed, and the run is over
C1_Witness ==
    /\ pc = "exited"
    /\ it = "done"
    /\ Len(fetched) = 2
    /\ Len(stdout) = 2
    /\ stdout[1] # stdout[2]

----------------------------------------------------------------------------
\* C2: when it.Next() returns an error other than iterator.Done after k
\* series were printed, the run aborts at once with that error: the k lines
\* stay the whole output, nothing more is fetched or printed, it.Next() is
\* not called again, and the process exits with a failure.
C2_FetchFailureAborts ==
    [][ /\ (it' = "failed" /\ it # "failed")
           => /\ stdout' = stdout
              /\ Len(stdout') = Len(fetched')
              /\ err' = "could not read time series value"
              /\ pc' = "returned"
        /\ it = "failed"
           => /\ stdout' = stdout
              /\ fetched' = fetched
              /\ nextCalls' = nextCalls
              /\ err' = err
              /\ pc' = "exited"
              /\ status' = "exit 1" ]_vars

\* The iterator failed after one line was printed, and the run is over
C2_Witness ==
    /\ it = "failed"
    /\ pc = "exited"
    /\ Len(stdout) = 1
    /\ nextCalls = 2

----------------------------------------------------------------------------
\* C3: a series with a point of no supported kind (a point without a value
\* included) aborts the run with the unsupported-type error: the series gets
\* no line, even when its earlier points were valid, the lines of the series
\* before it stay on standard output, and no later series is fetched or
\* printed.
C3_State ==
    \A i \in 1..Len(fetched) :
        HasUnsupported(fetched[i])
        => /\ i = Len(fetched)
           /\ nextCalls = i
           /\ Len(stdout) = i - 1
           /\ pc \in {"body", "returned", "exited"}
           /\ pc # "body" => err = "Not supported metric type"
           /\ pc = "exited" => status = "exit 1"

C3_UnsupportedKindAborts ==
    [][ /\ C3_State'
        /\ (fetched' # <<>> /\ HasUnsupported(Last(fetched'))) => stdout' = stdout ]_vars

\* The second series had a valid point and then a point with no value set;
\* the run is over with the line of the first series only
C3_Witness ==
    /\ pc = "exited"
    /\ Len(fetched) = 2
    /\ Len(stdout) = 1
    /\ Len(fetched[2].Points) = 2
    /\ Supported(fetched[2].Points[1])
    /\ ~Supported(fetched[2].Points[2])

----------------------------------------------------------------------------
\* C4: every point of every line has exactly one of its five value fields
\* non-null, the one of the kind of the source point, and for the four scalar
\* kinds it is the source value.
C4_ExactlyOneValue ==
    \A i \in 1..Len(stdout) :
        /\ LineOfSeries(i)
        /\ \A j \in 1..Len(stdout[i].arr) :
             LET v == GetValue(fetched[i].Points[j])
                 o == stdout[i].arr[j]
             IN  /\ v.kind \in Kinds
                 /\ NonNullKeys(o, ValueKeys) = {KeyOfKind(v.kind)}
                 /\ v.kind # "DistributionValue"
                    => Field(o, KeyOfKind(v.kind)) = Tok(Literal(v))

\* A line holds a bool point of value false and a distribution point
C4_Witness ==
    \E i \in 1..Len(stdout) :
        /\ Len(fetched[i].Points) = 2
        /\ GetValue(fetched[i].Points[1]) = [kind |-> "BoolValue", BoolValue |-> FALSE]
        /\ GetValue(fetched[i].Points[2]).kind = "DistributionValue"

----------------------------------------------------------------------------
\* C5: the client is acquired once and closed exactly once on every path
\* that acquired it (end of the sequence, fetch failure, unsupported kind,
\* serialization failure); it is open while the loop runs, is never closed
\* twice, and no line is written after it is closed.
C5_State ==
    /\ newCalls <= 1
    /\ closeCalls <= 1
    /\ pc \in {"next", "body"} => (client = "open" /\ closeCalls = 0 /\ newCalls = 1)
    /\ (pc \in {"returned", "exited"} /\ it # "none")
       => (client = "closed" /\ closeCalls = 1 /\ newCalls = 1)
    /\ (pc \in {"returned", "exited"} /\ it = "none")
       => (client = "none" /\ closeCalls = 0 /\ newCalls = 1)

C5_ClientClosedOnce ==
    [][ C5_State' /\ (client = "closed" => stdout' = stdout) ]_vars

\* The four ways out of the loop
EndedBy ==
    CASE it = "done" -> "done"
      [] it = "failed" -> "fetch"
      [] fetched # <<>> /\ HasUnsupported(Last(fetched)) -> "unsupported"
      [] OTHER -> "marshal"

\* The run is over after a serialization failure with one line printed,
\* and the client is closed
C5_Witness ==
    /\ pc = "exited"
    /\ it # "none"
    /\ EndedBy = "marshal"
    /\ Len(stdout) = 1
    /\ client = "closed"

----------------------------------------------------------------------------
\* C6 as stated: in every serialized point the keys of the value fields that
\* are not populated are absent, so the value keys present are exactly the
\* key of the populated kind.
C6_AsStated ==
    \A i \in 1..Len(stdout) :
        /\ LineOfSeries(i)
        /\ \A j \in 1..Len(stdout[i].arr) :
             KeysOf(stdout[i].arr[j]) \cap ValueKeys
                = {KeyOfKind(GetValue(fetched[i].Points[j]).kind)}

\* C6 amended: every serialized point has all five value keys; the keys of
\* the value fields that are not populated are present with the value null,
\* and the only value key with a value other than null is that of the
\* populated kind.
C6_UnpopulatedAreNull ==
    \A i \in 1..Len(stdout) :
        /\ LineOfSeries(i)
        /\ \A j \in 1..Len(stdout[i].arr) :
             LET o == stdout[i].arr[j]
                 k == KeyOfKind(GetValue(fetched[i].Points[j]).kind)
             IN  /\ KeysOf(o) \cap ValueKeys = ValueKeys
                 /\ Len(o.obj) = Cardinality(KeysOf(o))
                 /\ \A key \in ValueKeys : IsNull(Field(o, key)) <=> key # k

\* A line with a point of kind int64 was printed
C6_Witness ==
    \E i \in 1..Len(stdout) :
        /\ Len(fetched[i].Points) >= 1
        /\ GetValue(fetched[i].Points[1]).kind = "Int64Value"

----------------------------------------------------------------------------
\* C7: the process exits with a failure (the error on standard error, exit
\* status 1) exactly when the client could not be set up, a fetch failed, a
\* point had no supported kind or a series could not be serialized;
\* otherwise it exits with a success after the end of the sequence, every
\* series printed. After a client setup failure nothing is on standard
\* output and it.Next() was never called. The run always ends: every step
\* brings it closer to the exit, by a distance that the size of the
\* backend's answer bounds.
ErrorOccurred ==
    \/ it = "none"
    \/ it = "failed"
    \/ \E i \in 1..Len(fetched) : HasUnsupported(fetched[i]) \/ HasNotANumber(fetched[i])

C7_State ==
    /\ pc # "exited" => (status = "running" /\ stderr = <<>>)
    /\ pc = "exited"
       => /\ status = (IF ErrorOccurred THEN "exit 1" ELSE "exit 0")
          /\ status = "exit 1" => (err # "" /\ stderr = <<err>>)
          /\ status = "exit 0"
             => (stderr = <<>> /\ it = "done" /\ Len(stdout) = Len(fetched))
          /\ it = "none" => (stdout = <<>> /\ nextCalls = 0 /\ fetched = <<>>)

\* How far the run is from the exit: what the backend may still return,
\* and where the run is in main and in the loop
Rank ==
    CASE pc = "start" -> 5
      [] pc = "body" -> 4
      [] pc = "next" -> 3
      [] pc = "returned" -> 1
      [] pc = "exited" -> 0

Distance == 2 * (MaxLoad - Load(fetched)) + Rank

C7_FailureIffError ==
    []C7_State /\ [][Distance' < Distance /\ Distance' >= 0]_vars

\* The run ended with a success after two series
C7_Witness ==
    /\ pc = "exited"
    /\ status = "exit 0"
    /\ Len(stdout) = 2

----------------------------------------------------------------------------
\* C8: the loop body on a series without points prints the line [] (not
\* null), returns no error and goes on to the next call of it.Next().
C8_EmptySeriesPrinted ==
    [][ (pc = "body" /\ resp.v.Points = <<>>)
        => /\ stdout' = Append(stdout, Arr(<<>>))
           /\ pc' = "next"
           /\ err' = ""
           /\ client' = "open" ]_vars

\* A series without points was printed as [], and a series after it too
C8_Witness ==
    /\ Len(stdout) = 2
    /\ fetched[1].Points = <<>>
    /\ stdout[1] = Arr(<<>>)
    /\ fetched[2].Points # <<>>

----------------------------------------------------------------------------
\* C9: in every line the label list of a point has one entry per resource
\* label and one per metric label, the resource entries first; every entry
\* has the type of its origin; as a set the list is the tagged union of the
\* two maps (a key of both maps gives two entries); and all the points of
\* the line have the same list.
Quote(str) == "\"" \o str \o "\""

LabelTriple(o) == <<Field(o, "type").tok, Field(o, "key").tok, Field(o, "value").tok>>

Tagged(labels, type) ==
    {<<Quote(type), Quote(k), Quote(labels[k])>> : k \in DOMAIN labels}

C9_MergedLabels ==
    \A i \in 1..Len(stdout) :
        /\ LineOfSeries(i)
        /\ \A j \in 1..Len(stdout[i].arr) :
             LET list == Field(stdout[i].arr[j], "labels")
                 nr == Cardinality(DOMAIN fetched[i].Resource)
                 nm == Cardinality(DOMAIN fetched[i].Metric)
             IN  /\ "arr" \in DOMAIN list
                 /\ Len(list.arr) = nr + nm
                 /\ \A k \in 1..Len(list.arr) :
                      Field(list.arr[k], "type").tok
                         = Quote(IF k <= nr THEN "resource" ELSE "metric")
                 /\ {LabelTriple(list.arr[k]) : k \in 1..Len(list.arr)}
                       = Tagged(fetched[i].Resource, "resource")
                         \cup Tagged(fetched[i].Metric, "metric")
                 /\ list = Field(stdout[i].arr[1], "labels")

\* A line was printed for a series whose resource and metric labels share a
\* key with different values
C9_Witness ==
    \E i \in 1..Len(stdout) :
        /\ Len(fetched[i].Points) >= 1
        /\ "zone" \in DOMAIN fetched[i].Resource
        /\ "zone" \in DOMAIN fetched[i].Metric
        /\ fetched[i].Resource["zone"] # fetched[i].Metric["zone"]

----------------------------------------------------------------------------
\* C10: in every distribution of every line, range is null exactly when the
\* source has no range; bucket_options is null exactly when the source has
\* no bucket options; and when it is not null, its options hold at most one
\* layout that is not null, the layout set in the source, and none when the
\* source has no layout set.
LayoutKeys == {"linear_buckets", "exponential_buckets", "explicit_buckets"}

KeyOfLayout(layout) ==
    CASE layout = "LinearBuckets" -> {"linear_buckets"}
      [] layout = "ExponentialBuckets" -> {"exponential_buckets"}
      [] layout = "ExplicitBuckets" -> {"explicit_buckets"}
      [] OTHER -> {}

C10_BucketLayout ==
    \A i \in 1..Len(stdout) :
        /\ LineOfSeries(i)
        /\ \A j \in 1..Len(stdout[i].arr) :
             LET v == GetValue(fetched[i].Points[j])
                 d == Field(stdout[i].arr[j], "distribution_value")
             IN  v.kind = "DistributionValue"
                 => /\ ~IsNull(d)
                    /\ IsNull(Field(d, "range")) <=> v.DistributionValue.Range.nil
                    /\ IsNull(Field(d, "bucket_options"))
                          <=> v.DistributionValue.BucketOptions.nil
                    /\ ~v.DistributionValue.BucketOptions.nil
                       => LET ou == Field(Field(d, "bucket_options"), "options")
                          IN  /\ ~IsNull(ou)
                              /\ KeysOf(ou) = LayoutKeys
                              /\ NonNullKeys(ou, LayoutKeys)
                                    = KeyOfLayout(v.DistributionValue.BucketOptions.v.Options.layout)

\* A line holds a distribution with bucket options but no layout set and
\* without a range
C10_Witness ==
    \E i \in 1..Len(stdout) : \E j \in 1..Len(fetched[i].Points) :
        LET v == GetValue(fetched[i].Points[j])
        IN  /\ v.kind = "DistributionValue"
            /\ v.DistributionValue.Range.nil
            /\ ~v.DistributionValue.BucketOptions.nil
            /\ v.DistributionValue.BucketOptions.v.Options.layout = "none"

====
